---- MODULE Spec2Model ----
(***************************************************************************)
(* Order workflow of the pharmacy backend: CreateOrder and                 *)
(* UpdateOrderStatus over the User, Product, Order and Payment stores,     *)
(* and the pricing helper calculateDiscountedPrice.                        *)
(*                                                                         *)
(* Money is kept in hundredths (Scale) so that price*discount/100 is exact.*)
(***************************************************************************)
EXTENDS Integers, Sequences, FiniteSets, TLC

VARIABLES users, products, orders, payments, last, calc, tokens, pending, gen,
          sessions

vars ==
  <<users, products, orders, payments, last, calc, tokens, pending, gen, sessions>>

\* the state of the authentication service and of the pure helpers, which the
\* order workflow leaves alone
authVars == <<tokens, pending>>

pureVars == <<calc, gen>>

(***************************************************************************)
(* Bounds of the model.                                                    *)
(***************************************************************************)
MaxOrders == 1
MaxQty == 2
MaxPrice == 100
MaxDiscount == 150

\* the most users the User collection holds
MaxUsers == 4

\* how many consecutive digits of a UUID range over every hex digit
MaxVaried == 2

(***************************************************************************)
(* Program constants.                                                      *)
(***************************************************************************)
Scale == 100
DeliveryThreshold == 1000
DeliveryCharge == 50

OrderStatusValues == {"PLACED", "CONFIRMED", "SHIPPED", "DELIVERED", "CANCELLED"}

DefaultOrderStatus == "PLACED"

DefaultPaymentStatus == "PENDING"

\* Status values a caller may send: the five states and one outside them.
RequestedStatuses == OrderStatusValues \cup {"RETURNED"}

PaymentMethods == {"cash_on_delivery", "online"}

DiscountTypes == {"PERCENTAGE", "FLAT"}

ProductOrder == <<"p1", "p2", "p3">>

ProductIds == {ProductOrder[i] : i \in 1..Len(ProductOrder)}

Emails == {"a@x", "b@x"}

\* the requests the server may be handling at the same time
Procs == {"r1", "r2"}

\* no CreateOrder transaction open
NoSessions == [p \in Procs |-> [pc |-> "idle"]]

\* no Register call in flight
NoPending == [p \in Procs |-> [pc |-> "idle", email |-> "", password |-> ""]]

Quantities == 1..MaxQty

OrderItem == [product_id : ProductIds, quantity : Quantities]

\* A list longer than the number of live products repeats an id or names the
\* deleted product, and is refused like the two-item lists that do.
MaxItems == Len(ProductOrder) - 1

OrderItemLists == UNION {[1..n -> OrderItem] : n \in 1..MaxItems}

OrderIds == 1..(MaxOrders + 1)

(***************************************************************************)
(* Helpers.                                                                *)
(***************************************************************************)
RECURSIVE SumSeq(_)
SumSeq(s) == IF s = <<>> THEN 0 ELSE Head(s) + SumSeq(Tail(s))

Max(a, b) == IF a >= b THEN a ELSE b

Some(s, P(_)) == \E i \in 1..Len(s) : P(s[i])

Map(s, F(_)) == [i \in 1..Len(s) |-> F(s[i])]

\* calculateDiscountedPrice without the final clamp at 0
calculateDiscountedPrice_NoClamp(price, discount, discountType) ==
  IF discount # 0 /\ discountType # ""
  THEN IF discountType = "PERCENTAGE"
       THEN price * Scale - price * discount
       ELSE IF discountType = "FLAT"
            THEN price * Scale - discount * Scale
            ELSE price * Scale
  ELSE price * Scale

(***************************************************************************)
(* order.utils: calculateDiscountedPrice, in hundredths.                   *)
(* `discount && discountType` is false for discount 0 and for a missing    *)
(* type (modelled as "").                                                  *)
(***************************************************************************)
calculateDiscountedPrice(price, discount, discountType) ==
  LET finalPrice ==
        IF discount # 0 /\ discountType # ""
        THEN IF discountType = "PERCENTAGE"
             THEN price * Scale - price * discount
             ELSE IF discountType = "FLAT"
                  THEN price * Scale - discount * Scale
                  ELSE price * Scale
        ELSE price * Scale
  IN IF finalPrice < 0 THEN 0 ELSE finalPrice

(***************************************************************************)
(* The document store and its multi-document transaction (mongoose         *)
(* session): writes made with the session go to a staged copy, which       *)
(* commitTransaction publishes and abortTransaction discards.              *)
(***************************************************************************)
Store == [products |-> products, orders |-> orders, payments |-> payments]

startTransaction(store) == [base |-> store, staged |-> store]

commitTransaction(session) == session.staged

\* an abort that does not roll the staged writes back
abortTransaction_NoRollback(session) == session.staged

abortTransaction(session) == session.base

\* User.findOne({email, status: 'ACTIVE', is_deleted: false})
FindActiveUser(email) ==
  {u \in users : u.email = email /\ u.status = "ACTIVE" /\ ~u.is_deleted}

\* orderItems.map(item => item.product_id)
ProductIdsOf(items) == Map(items, LAMBDA item : item.product_id)

\* Product.find({_id: {$in: productIds}, is_deleted: false}), in store order
FindProducts(prods, productIds) ==
  SelectSeq(ProductOrder,
            LAMBDA p : Some(productIds, LAMBDA q : q = p) /\ ~prods[p].is_deleted)

\* orderItems.find(item => item.product_id === product._id): the first match
FindItem(items, pid) ==
  LET idx == {i \in 1..Len(items) : items[i].product_id = pid}
  IN items[CHOOSE i \in idx : \A j \in idx : i <= j]

HasItem(items, pid) == \E i \in 1..Len(items) : items[i].product_id = pid

\* a prescription check that looks at the first product only
isPrescriptionRequired_FirstOnly(prods, requested) ==
  Len(requested) > 0 /\ prods[requested[1]].requires_prescription

\* requestedProducts.some(product => product.requires_prescription)
isPrescriptionRequired(prods, requested) ==
  Some(requested, LAMBDA p : prods[p].requires_prescription)

\* a stock check that is off by one
OutOfStock_OffByOne(prods, items, requested) ==
  Some(requested,
       LAMBDA p : ~HasItem(items, p)
                  \/ prods[p].stock + 1 < FindItem(items, p).quantity)

\* the check inside requestedProducts.map: !orderItem || product.stock < quantity
OutOfStock(prods, items, requested) ==
  Some(requested,
       LAMBDA p : ~HasItem(items, p) \/ prods[p].stock < FindItem(items, p).quantity)

\* the snapshot line item returned by requestedProducts.map
OrderLine(prods, items, p) ==
  [product_id |-> p,
   price |-> prods[p].price,
   discount |-> prods[p].discount,
   discount_type |-> prods[p].discount_type,
   quantity |-> FindItem(items, p).quantity,
   requires_prescription |-> prods[p].requires_prescription]

\* subtotal += finalPrice * orderItem.quantity
LineTotal(line) ==
  calculateDiscountedPrice(line.price, line.discount, line.discount_type)
    * line.quantity

Subtotal(lines) == SumSeq(Map(lines, LineTotal))

\* free delivery from the threshold on, instead of above it
DeliveryChargeOf_AtLeast(subtotal) ==
  IF subtotal >= DeliveryThreshold * Scale THEN 0 ELSE DeliveryCharge * Scale

\* delivery_charge = subtotal > 1000 ? 0 : 50
DeliveryChargeOf(subtotal) ==
  IF subtotal > DeliveryThreshold * Scale THEN 0 ELSE DeliveryCharge * Scale

\* the validation part of CreateOrder, in the order of the code: the error
\* thrown before any write, or "none"
CreateOrderCheck(prods, email, items, file) ==
  LET requested == FindProducts(prods, ProductIdsOf(items))
  IN IF FindActiveUser(email) = {} THEN "Unauthorized"
     ELSE IF Len(requested) # Len(items) THEN "BadRequest"
     ELSE IF isPrescriptionRequired(prods, requested) /\ ~file THEN "BadRequest"
     ELSE IF OutOfStock(prods, items, requested) THEN "BadRequest"
     ELSE "none"

\* the Order document handed to Order.create
NewOrder(store, email, items, file, method, txn) ==
  LET requested == FindProducts(store.products, ProductIdsOf(items))
      lines == Map(requested, LAMBDA p : OrderLine(store.products, items, p))
      subtotal == Subtotal(lines)
      user == CHOOSE u \in FindActiveUser(email) : TRUE
  IN [_id |-> Len(store.orders) + 1,
      order_id |-> Len(store.orders) + 1,
      customer_id |-> user._id,
      products |-> lines,
      payment_method |-> method,
      prescription |->
        IF isPrescriptionRequired(store.products, requested) THEN "secure_url" ELSE "",
      subtotal |-> subtotal,
      delivery_charge |-> DeliveryChargeOf(subtotal),
      grand_total |-> subtotal + DeliveryChargeOf(subtotal),
      transaction_id |-> txn,
      order_status |-> DefaultOrderStatus,
      payment_status |-> DefaultPaymentStatus]

\* Order.create([...], {session})
InsertOrder(session, order) ==
  [session EXCEPT !.staged.orders = Append(@, order)]

\* Product.updateOne({_id}, {stock: newStock, in_stock: newStock > 0}, {session})
\* for every line but those in `failed`
WriteStock(session, order, failed) ==
  [session EXCEPT !.staged.products =
     [p \in ProductIds |->
        IF HasItem(order.products, p) /\ p \notin failed
        THEN LET newStock == session.base.products[p].stock
                               - FindItem(order.products, p).quantity
             IN [@[p] EXCEPT !.stock = newStock, !.in_stock = newStock > 0]
        ELSE @[p]]]

\* Payment.create([{order_id, amount: grand_total, transaction_id}], {session})
InsertPayment(session, order) ==
  [session EXCEPT !.staged.payments =
     Append(@, [order_id |-> order._id,
                amount |-> order.grand_total,
                transaction_id |-> order.transaction_id,
                payment_status |-> DefaultPaymentStatus])]

\* where a write of CreateOrder can fail: nowhere when a check already failed
CreateFailPoints(check) ==
  IF check = "none"
  THEN {"none", "order_write", "stock_write", "payment_write"}
  ELSE {"none"}

\* the three writes of CreateOrder up to the failing one, then commit or abort
CreateOrderWrites(store, order, fail) ==
  LET s0 == startTransaction(store)
      s1 == InsertOrder(s0, order)
      s2 == WriteStock(s1, order, {})
      s2f == WriteStock(s1, order, {order.products[1].product_id})
      s3 == InsertPayment(s2, order)
  IN CASE fail = "none" -> commitTransaction(s3)
       [] fail = "order_write" -> abortTransaction(s0)
       [] fail = "stock_write" -> abortTransaction(s2f)
       [] fail = "payment_write" -> abortTransaction(s2)

\* What the caller of the last operation saw, and the facts about its
\* request (taken against the store as it was before the call).
NoRequest ==
  [op |-> "none", err |-> "none", fail |-> "none", id |-> 0, status |-> "",
   userResolves |-> FALSE, allResolve |-> FALSE, exceedsStock |-> FALSE,
   needsPrescription |-> FALSE, repeatsId |-> FALSE, file |-> FALSE,
   email |-> "", password |-> "", user |-> "", issued |-> {}, result |-> <<>>]

\* the request's user is an active, non-deleted user
UserResolves(email) ==
  \E u \in users : u.email = email /\ u.status = "ACTIVE" /\ ~u.is_deleted

\* every product id of the request names a non-deleted product
AllResolve(items) ==
  \A i \in 1..Len(items) : ~products[items[i].product_id].is_deleted

\* some requested line asks for more than the current stock of its product
ExceedsStock(items) ==
  \E i \in 1..Len(items) : items[i].quantity > products[items[i].product_id].stock

\* two lines of the request name the same product
RepeatsId(items) ==
  \E i, j \in 1..Len(items) : i # j /\ items[i].product_id = items[j].product_id

\* some resolved product of the request is prescription-only
NeedsPrescription(items) ==
  \E i \in 1..Len(items) :
     /\ ~products[items[i].product_id].is_deleted
     /\ products[items[i].product_id].requires_prescription

\* the payment methods worth telling apart: a refused request leaves no trace
\* of its payment method
CreateMethods(check) ==
  IF check = "none"
  THEN PaymentMethods
  ELSE {"cash_on_delivery"}

\* CreateOrder, committing while the store holds fewer than `limit` orders
CreateOrderWithin(limit, email, items, file, method, txn, fail) ==
  \E check \in {CreateOrderCheck(products, email, items, file)} :
  \E after \in {IF check = "none"
                 THEN CreateOrderWrites(
                        Store, NewOrder(Store, email, items, file, method, txn), fail)
                 ELSE Store} :
     /\ fail \in CreateFailPoints(check)
     /\ (check = "none" /\ fail = "none") => Len(orders) < limit
     /\ products' = after.products
     /\ orders' = after.orders
     /\ payments' = after.payments
     /\ last' = [NoRequest EXCEPT !.op = "CreateOrder",
                                  !.err = IF check # "none" THEN check ELSE fail,
                                  !.fail = fail,
                                  !.userResolves = UserResolves(email),
                                  !.allResolve = AllResolve(items),
                                  !.exceedsStock = ExceedsStock(items),
                                  !.needsPrescription = NeedsPrescription(items),
                                  !.repeatsId = RepeatsId(items),
                                  !.file = file]
     /\ UNCHANGED <<users, authVars, sessions, pureVars>>

CreateOrder(email, items, file, method, txn, fail) ==
  CreateOrderWithin(MaxOrders, email, items, file, method, txn, fail)

(***************************************************************************)
(* UpdateOrderStatus.                                                      *)
(***************************************************************************)
\* the table read by target status: entry T lists the statuses T cannot be
\* reached from
invalidTransitions_ByTarget(currentStatus) ==
  CASE currentStatus = "PLACED" -> {"SHIPPED", "DELIVERED"}
    [] currentStatus = "CONFIRMED" -> {"SHIPPED", "DELIVERED"}
    [] currentStatus = "SHIPPED" -> {"DELIVERED", "CANCELLED"}
    [] currentStatus = "DELIVERED" -> {"CANCELLED"}
    [] currentStatus = "CANCELLED" -> {"DELIVERED"}

\* the table with CANCELLED missing from the DELIVERED entry
invalidTransitions_DeliveredOpen(currentStatus) ==
  CASE currentStatus = "PLACED" -> {}
    [] currentStatus = "CONFIRMED" -> {}
    [] currentStatus = "SHIPPED" -> {"PLACED", "CONFIRMED"}
    [] currentStatus = "DELIVERED" -> {"PLACED", "CONFIRMED", "SHIPPED"}
    [] currentStatus = "CANCELLED" -> {"DELIVERED", "SHIPPED"}

\* invalidTransitions[currentStatus]: the targets refused from that status
invalidTransitions(currentStatus) ==
  CASE currentStatus = "PLACED" -> {}
    [] currentStatus = "CONFIRMED" -> {}
    [] currentStatus = "SHIPPED" -> {"PLACED", "CONFIRMED"}
    [] currentStatus = "DELIVERED" -> {"PLACED", "CONFIRMED", "SHIPPED", "CANCELLED"}
    [] currentStatus = "CANCELLED" -> {"DELIVERED", "SHIPPED"}

\* a confirm guard that looks at the first line item only
ConfirmBlocked_FirstLine(order) ==
  /\ order.products[1].requires_prescription
  /\ order.prescription = ""

\* case 'CONFIRMED': a prescription line without a prescription on the order
ConfirmBlocked(order) ==
  /\ Some(order.products, LAMBDA line : line.requires_prescription)
  /\ order.prescription = ""

\* a ship guard that stops only the orders still waiting for their payment
ShipBlocked_PendingOnly(order) ==
  /\ order.payment_method # "cash_on_delivery"
  /\ order.payment_status = "PENDING"

\* case 'SHIPPED': neither cash on delivery nor paid
ShipBlocked(order) ==
  /\ order.payment_method # "cash_on_delivery"
  /\ order.payment_status # "PAID"

\* the checks of UpdateOrderStatus, in the order of the code: the error thrown
\* before any write, or "none"
UpdateOrderStatusCheck(ords, id, status) ==
  IF id \notin 1..Len(ords) THEN "NotFound"
  ELSE IF status \notin OrderStatusValues THEN "BadRequest"
  ELSE IF status \in invalidTransitions(ords[id].order_status) THEN "BadRequest"
  ELSE IF status = "CONFIRMED" /\ ConfirmBlocked(ords[id]) THEN "BadRequest"
  ELSE IF status = "SHIPPED" /\ ShipBlocked(ords[id]) THEN "BadRequest"
  ELSE "none"

\* case 'CANCELLED' with payment_status PAID: the branch that refunds and restocks
CancelsPaid(order, status) == status = "CANCELLED" /\ order.payment_status = "PAID"

\* a DELIVERED case that marks the payment PAID whatever the payment method
NewPaymentStatus_AnyMethod(order, status) ==
  IF status = "DELIVERED" THEN "PAID"
  ELSE IF CancelsPaid(order, status) THEN "CANCELLED"
  ELSE order.payment_status

\* the payment_status the switch leaves on the in-memory order document
NewPaymentStatus(order, status) ==
  IF status = "DELIVERED" /\ order.payment_method = "cash_on_delivery" THEN "PAID"
  ELSE IF CancelsPaid(order, status) THEN "CANCELLED"
  ELSE order.payment_status

\* Payment.updateOne({order_id}, {payment_status: 'CANCELLED'}, {session}):
\* updateOne changes the first matching document
CancelPayment(session, order) ==
  LET idx == {i \in 1..Len(session.staged.payments) :
                session.staged.payments[i].order_id = order._id}
  IN IF idx = {} THEN session
     ELSE [session EXCEPT
             !.staged.payments[CHOOSE i \in idx : \A j \in idx : i <= j].payment_status =
               "CANCELLED"]

\* a restock that sets the stock to the line's quantity instead of adding it
Restock_SetsStock(session, order, failed) ==
  [session EXCEPT !.staged.products =
     [p \in ProductIds |->
        IF HasItem(order.products, p) /\ p \notin failed
        THEN [@[p] EXCEPT !.stock = FindItem(order.products, p).quantity]
        ELSE @[p]]]

\* Product.updateOne({_id: product_id}, {$inc: {stock: quantity}}, {session})
\* for every line item but those in `failed`
Restock(session, order, failed) ==
  [session EXCEPT !.staged.products =
     [p \in ProductIds |->
        [@[p] EXCEPT !.stock =
           @ + SumSeq(Map(order.products,
                          LAMBDA line : IF line.product_id = p /\ p \notin failed
                                        THEN line.quantity ELSE 0))]]]

\* a save that recomputes the order's total without its delivery charge
SaveOrder_DropsCharge(session, order, status) ==
  [session EXCEPT !.staged.orders[order._id] =
     [@ EXCEPT !.order_status = status,
               !.payment_status = NewPaymentStatus(order, status),
               !.grand_total = order.subtotal]]

\* a save that writes the payment_status but not the requested status
SaveOrder_KeepsStatus(session, order, status) ==
  [session EXCEPT !.staged.orders[order._id] =
     [@ EXCEPT !.payment_status = NewPaymentStatus(order, status)]]

\* order.order_status = status; order.save({session})
SaveOrder(session, order, status) ==
  [session EXCEPT !.staged.orders[order._id] =
     [@ EXCEPT !.order_status = status,
               !.payment_status = NewPaymentStatus(order, status)]]

\* where a write of UpdateOrderStatus can fail: nowhere when a check already
\* failed; the payment and stock writes exist only when a paid order is cancelled
UpdateFailPoints(check, id, status) ==
  IF check # "none" THEN {"none"}
  ELSE IF CancelsPaid(orders[id], status)
  THEN {"none", "payment_write", "stock_write", "order_write"}
  ELSE {"none", "order_write"}

\* the writes of UpdateOrderStatus made outside the session: those done before
\* the failing one stay
UpdateOrderStatusWrites_NoSession(store, order, status, fail) ==
  LET s0 == startTransaction(store)
      s1 == IF CancelsPaid(order, status) THEN CancelPayment(s0, order) ELSE s0
      s2 == IF CancelsPaid(order, status) THEN Restock(s1, order, {}) ELSE s1
      s2f == Restock(s1, order, {order.products[1].product_id})
      s3 == SaveOrder(s2, order, status)
  IN CASE fail = "none" -> commitTransaction(s3)
       [] fail = "payment_write" -> commitTransaction(s0)
       [] fail = "stock_write" -> commitTransaction(s2f)
       [] fail = "order_write" -> commitTransaction(s2)

\* the writes of UpdateOrderStatus up to the failing one, then commit or abort
UpdateOrderStatusWrites(store, order, status, fail) ==
  LET s0 == startTransaction(store)
      s1 == IF CancelsPaid(order, status) THEN CancelPayment(s0, order) ELSE s0
      s2 == IF CancelsPaid(order, status) THEN Restock(s1, order, {}) ELSE s1
      s2f == Restock(s1, order, {order.products[1].product_id})
      s3 == SaveOrder(s2, order, status)
  IN CASE fail = "none" -> commitTransaction(s3)
       [] fail = "payment_write" -> abortTransaction(s0)
       [] fail = "stock_write" -> abortTransaction(s2f)
       [] fail = "order_write" -> abortTransaction(s2)

UpdateOrderStatus(id, status, fail) ==
  \E check \in {UpdateOrderStatusCheck(orders, id, status)} :
  \E after \in {IF check = "none"
                 THEN UpdateOrderStatusWrites(Store, orders[id], status, fail)
                 ELSE Store} :
     /\ fail \in UpdateFailPoints(check, id, status)
     /\ products' = after.products
     /\ orders' = after.orders
     /\ payments' = after.payments
     /\ last' = [NoRequest EXCEPT !.op = "UpdateOrderStatus",
                                  !.err = IF check # "none" THEN check ELSE fail,
                                  !.id = id, !.status = status, !.fail = fail]
     /\ UNCHANGED <<users, authVars, sessions, pureVars>>

(***************************************************************************)
(* Authentication (auth.services.ts).  A token is represented by the       *)
(* payload it carries; `tokens` holds the payloads for which Login or      *)
(* Register issued an access and a refresh token.                          *)
(***************************************************************************)
AuthEmails == Emails \cup {"c@x"}

RegisterEmails == {"a@x", "c@x"}

Passwords == {"pw1", "pw2"}

\* the pre-save hook's bcrypt hash of a plain password
Hash(plain) == <<"bcrypt", plain>>

\* User.isPasswordMatched(plain, hashed): bcrypt.compare
isPasswordMatched(plain, hashed) == hashed = Hash(plain)

\* User.isUserExists(email): the users with that email (findOne returns one)
isUserExists(email) == {u \in users : u.email = email}

\* const jwtPayload = {id: user._id, email: user.email, role: user.role}
jwtPayload(user) == [id |-> user._id, email |-> user.email, role |-> user.role]

\* a string that is no token signed by this server
InvalidToken == [id |-> "", email |-> "", role |-> ""]

\* AuthUtils.VerifyToken: the decoded payload of a token this server signed
VerifyToken(token) == token \in tokens

\* the user object a handler receives: the decoded payload of the bearer token
RequestUser(token) == token

\* a JavaScript property read: a missing property reads as undefined
Field(object, key) == IF key \in DOMAIN object THEN object[key] ELSE "undefined"

\* a Login that does not look at is_blocked
LoginCheck_IgnoresBlock(user, password) ==
  IF ~isPasswordMatched(password, user.password) THEN "Unauthorized"
  ELSE "none"

\* the outcome of Login for the user that findOne returned
LoginCheck(user, password) ==
  IF user.is_blocked THEN "Forbidden"
  ELSE IF ~isPasswordMatched(password, user.password) THEN "Unauthorized"
  ELSE "none"

Login(email, password) ==
  /\ \/ /\ isUserExists(email) = {}
        /\ last' = [NoRequest EXCEPT !.op = "Login", !.err = "NotFound",
                                     !.email = email, !.password = password]
        /\ UNCHANGED tokens
     \/ \E user \in isUserExists(email) :
          \E check \in {LoginCheck(user, password)} :
            /\ tokens' = IF check = "none" THEN tokens \cup {jwtPayload(user)}
                         ELSE tokens
            /\ last' = [NoRequest EXCEPT
                          !.op = "Login", !.err = check,
                          !.email = email, !.password = password,
                          !.user = user._id,
                          !.issued = IF check = "none"
                                     THEN {"accessToken", "refreshToken"} ELSE {}]
  /\ UNCHANGED <<users, products, orders, payments, pending, sessions, pureVars>>

\* the document User.create({...payload}) stores
NewUser(email, password) ==
  [_id |-> "u" \o ToString(Cardinality(users) + 1),
   email |-> email, status |-> "ACTIVE", is_deleted |-> FALSE,
   is_blocked |-> FALSE, password |-> Hash(password), role |-> "CUSTOMER"]

\* the Register calls that have passed the existence check and not yet created
Registering == {p \in Procs : pending[p].pc = "create"}

\* Register up to its first await: User.isUserExists(payload.email), and the
\* Conflict error when a user with that email exists
RegisterCheck(p, email, password) ==
  /\ pending[p].pc = "idle"
  /\ Cardinality(users) + Cardinality(Registering) < MaxUsers
  /\ IF isUserExists(email) # {}
     THEN /\ last' = [NoRequest EXCEPT !.op = "Register", !.err = "Conflict",
                                       !.email = email, !.password = password]
          /\ UNCHANGED pending
     ELSE /\ pending' = [pending EXCEPT
                           ![p] = [pc |-> "create", email |-> email,
                                   password |-> password]]
          /\ UNCHANGED last
  /\ UNCHANGED <<users, products, orders, payments, tokens, sessions, pureVars>>

\* the rest of Register: User.create({...payload}) and the two tokens
RegisterCreate(p) ==
  /\ pending[p].pc = "create"
  /\ \E user \in {NewUser(pending[p].email, pending[p].password)} :
       /\ users' = users \cup {user}
       /\ tokens' = tokens \cup {jwtPayload(user)}
       /\ last' = [NoRequest EXCEPT
                     !.op = "Register", !.err = "none",
                     !.email = pending[p].email, !.password = pending[p].password,
                     !.user = user._id,
                     !.issued = {"accessToken", "refreshToken"}]
  /\ pending' = [pending EXCEPT ![p] = NoPending[p]]
  /\ UNCHANGED <<products, orders, payments, sessions, pureVars>>

\* User.findOne({_id: decoded.id, is_blocked: false})
FindUnblockedUser(id) == {u \in users : u._id = id /\ ~u.is_blocked}

RefreshToken(refreshToken) ==
  /\ \E err \in {IF ~VerifyToken(refreshToken) THEN "Unauthorized"
                  ELSE IF FindUnblockedUser(refreshToken.id) = {} THEN "NotFound"
                  ELSE "none"} :
       last' = [NoRequest EXCEPT
                  !.op = "RefreshToken", !.err = err, !.user = refreshToken.id,
                  !.issued = IF err = "none" THEN {"accessToken"} ELSE {}]
  /\ UNCHANGED <<users, products, orders, payments, authVars, sessions, pureVars>>

ChangePassword(oldPassword, newPassword, token) ==
  /\ VerifyToken(token)
  /\ \E found \in {FindUnblockedUser(RequestUser(token).id)} :
       IF found = {}
       THEN /\ last' = [NoRequest EXCEPT !.op = "ChangePassword",
                                         !.err = "NotFound", !.user = token.id]
            /\ UNCHANGED users
       ELSE \E user \in found :
              IF ~isPasswordMatched(oldPassword, user.password)
              THEN /\ last' = [NoRequest EXCEPT !.op = "ChangePassword",
                                                !.err = "Unauthorized",
                                                !.user = token.id]
                   /\ UNCHANGED users
              ELSE /\ last' = [NoRequest EXCEPT !.op = "ChangePassword",
                                                !.user = token.id]
                   /\ users' = (users \ {user})
                                 \cup {[user EXCEPT !.password = Hash(newPassword)]}
  /\ UNCHANGED <<products, orders, payments, authVars, sessions, pureVars>>

\* the user module blocks an account
BlockUser(id) ==
  /\ \E user \in {u \in users : u._id = id /\ ~u.is_blocked} :
       users' = (users \ {user}) \cup {[user EXCEPT !.is_blocked = TRUE]}
  /\ last' = [NoRequest EXCEPT !.op = "BlockUser", !.user = id]
  /\ UNCHANGED <<products, orders, payments, authVars, sessions, pureVars>>

(***************************************************************************)
(* The customer's order queries.                                           *)
(***************************************************************************)
\* what a filter {customer_id: value} does with an undefined value: the driver
\* sends it as null, which no order's customer_id equals, or drops the key
UndefinedFilter == {"null", "ignored"}

\* an order matches {customer_id: value}
MatchesCustomer(order, value, undef) ==
  IF value = "undefined" THEN undef = "ignored"
  ELSE order.customer_id = value

Reverse(s) == [k \in 1..Len(s) |-> s[Len(s) + 1 - k]]

\* Order.find({customer_id: user._id}).sort({createdAt: -1})
FindMyOrders(ords, user, undef) ==
  Reverse(SelectSeq(ords,
                    LAMBDA o : MatchesCustomer(o, Field(user, "_id"), undef)))

GetMyOrders(token, undef) ==
  /\ VerifyToken(token)
  /\ last' = [NoRequest EXCEPT
                !.op = "GetMyOrders", !.user = token.id,
                !.result = Map(FindMyOrders(orders, RequestUser(token), undef),
                               LAMBDA o : o._id)]
  /\ UNCHANGED <<users, products, orders, payments, authVars, sessions, pureVars>>

\* Order.findOne({order_id: id, customer_id: user._id})
FindMyOrder(ords, id, user, undef) ==
  SelectSeq(ords, LAMBDA o : /\ o.order_id = id
                             /\ MatchesCustomer(o, Field(user, "_id"), undef))

GetMyOrderById(id, token, undef) ==
  /\ VerifyToken(token)
  /\ \E found \in {FindMyOrder(orders, id, RequestUser(token), undef)} :
       last' = [NoRequest EXCEPT
                  !.op = "GetMyOrderById", !.user = token.id, !.id = id,
                  !.err = IF found = <<>> THEN "NotFound" ELSE "none",
                  !.result = IF found = <<>> THEN <<>> ELSE <<found[1]._id>>]
  /\ UNCHANGED <<users, products, orders, payments, authVars, sessions, pureVars>>

(***************************************************************************)
(* Payment processing (the payment module): a gateway payment of an online *)
(* order succeeds and marks the order and its Payment record PAID.         *)
(***************************************************************************)
MarkPaymentPaid(id) ==
  /\ id \in 1..Len(orders)
  /\ orders[id].payment_method = "online"
  /\ orders[id].payment_status = "PENDING"
  /\ orders' = [orders EXCEPT ![id].payment_status = "PAID"]
  /\ payments' = [i \in 1..Len(payments) |->
                    IF payments[i].order_id = id
                    THEN [payments[i] EXCEPT !.payment_status = "PAID"]
                    ELSE payments[i]]
  /\ last' = [NoRequest EXCEPT !.op = "MarkPaymentPaid", !.id = id]
  /\ UNCHANGED <<users, products, authVars, sessions, pureVars>>

(***************************************************************************)
(* Initial store: an active customer and a soft-deleted one; an ordinary   *)
(* product, a prescription-only product and a soft-deleted product.        *)
(***************************************************************************)
InitUsers ==
  {[_id |-> "u1", email |-> "a@x", status |-> "ACTIVE", is_deleted |-> FALSE,
    is_blocked |-> FALSE, password |-> Hash("pw1"), role |-> "CUSTOMER"],
   [_id |-> "u2", email |-> "b@x", status |-> "ACTIVE", is_deleted |-> TRUE,
    is_blocked |-> FALSE, password |-> Hash("pw1"), role |-> "CUSTOMER"]}

Product(price, discount, type, stock, rx, deleted) ==
  [price |-> price, discount |-> discount, discount_type |-> type,
   stock |-> stock, in_stock |-> stock > 0,
   requires_prescription |-> rx, is_deleted |-> deleted]

InitProducts ==
  [p \in ProductIds |->
     CASE p = "p1" -> Product(500, 0, "PERCENTAGE", MaxQty, FALSE, FALSE)
       [] p = "p2" -> Product(333, 15, "PERCENTAGE", 1, TRUE, FALSE)
       [] p = "p3" -> Product(80, 100, "FLAT", 1, FALSE, TRUE)]

NoCalc == [price |-> 0, discount |-> 0, type |-> "", result |-> 0, done |-> FALSE]

NoGen == [uuid |-> <<>>, order_id |-> <<>>, transaction_id |-> <<>>, done |-> FALSE]

\* the part of the initial state that is the same in every specification
InitRest ==
  /\ tokens = {}
  /\ pending = NoPending
  /\ gen = NoGen
  /\ sessions = NoSessions

Init ==
  /\ users = InitUsers
  /\ products = InitProducts
  /\ orders = <<>>
  /\ payments = <<>>
  /\ last = NoRequest
  /\ calc = NoCalc
  /\ InitRest

\* a customer posts an order; the transaction id is a fresh one
CreateOrderCall ==
  \E email \in Emails, items \in OrderItemLists, file \in BOOLEAN :
    \E check \in {CreateOrderCheck(products, email, items, file)} :
      \E method \in CreateMethods(check), fail \in CreateFailPoints(check) :
        CreateOrder(email, items, file, method, Len(orders) + 1, fail)

\* an admin patches the status of an order id, existing or not
UpdateOrderStatusCall ==
  \E id \in OrderIds, status \in RequestedStatuses :
    \E fail \in UpdateFailPoints(UpdateOrderStatusCheck(orders, id, status), id, status) :
      UpdateOrderStatus(id, status, fail)

PaymentCall == \E id \in OrderIds : MarkPaymentPaid(id)

Next ==
  \/ CreateOrderCall
  \/ UpdateOrderStatusCall
  \/ PaymentCall

Spec == Init /\ [][Next]_vars

(***************************************************************************)
(* calculateDiscountedPrice on its own: every price, discount and type of  *)
(* the bounded ranges.                                                     *)
(***************************************************************************)
InitCalc ==
  /\ users = InitUsers
  /\ products = InitProducts
  /\ orders = <<>>
  /\ payments = <<>>
  /\ last = NoRequest
  /\ calc \in [price : 0..MaxPrice, discount : 0..MaxDiscount,
               type : DiscountTypes \cup {""}, result : {0}, done : {FALSE}]
  /\ InitRest

Calculate ==
  /\ ~calc.done
  /\ calc' = [calc EXCEPT
                !.result = calculateDiscountedPrice(calc.price, calc.discount, calc.type),
                !.done = TRUE]
  /\ UNCHANGED <<users, products, orders, payments, last, authVars, sessions, gen>>

SpecCalc == InitCalc /\ [][Calculate]_vars

LoginCall == \E email \in AuthEmails, password \in Passwords : Login(email, password)

RegisterCall ==
  \E p \in Procs, email \in RegisterEmails, password \in Passwords :
    RegisterCheck(p, email, password)

RegisterStep == \E p \in Procs : RegisterCreate(p)

RefreshTokenCall == \E token \in tokens \cup {InvalidToken} : RefreshToken(token)

ChangePasswordCall ==
  \E token \in tokens, oldPassword \in Passwords, newPassword \in Passwords :
    ChangePassword(oldPassword, newPassword, token)

BlockUserCall == \E user \in users : BlockUser(user._id)

NextAuth ==
  \/ LoginCall
  \/ RegisterCall
  \/ RegisterStep
  \/ RefreshTokenCall
  \/ ChangePasswordCall
  \/ BlockUserCall

SpecAuth == Init /\ [][NextAuth]_vars

GetMyOrdersCall ==
  \E token \in tokens, undef \in UndefinedFilter : GetMyOrders(token, undef)

GetMyOrderByIdCall ==
  \E id \in OrderIds, token \in tokens, undef \in UndefinedFilter :
    GetMyOrderById(id, token, undef)

NextQuery ==
  \/ LoginCall
  \/ CreateOrderCall
  \/ GetMyOrdersCall
  \/ GetMyOrderByIdCall

SpecQuery == Init /\ [][NextQuery]_vars

(***************************************************************************)
(* The id generators (order.utils), on a UUID given as the sequence of its *)
(* characters.                                                             *)
(***************************************************************************)
Digits == {"0", "1", "2", "3", "4", "5", "6", "7", "8", "9"}

LowerCase ==
  {"a", "b", "c", "d", "e", "f", "g", "h", "i", "j", "k", "l", "m",
   "n", "o", "p", "q", "r", "s", "t", "u", "v", "w", "x", "y", "z"}

UpperCase ==
  {"A", "B", "C", "D", "E", "F", "G", "H", "I", "J", "K", "L", "M",
   "N", "O", "P", "Q", "R", "S", "T", "U", "V", "W", "X", "Y", "Z"}

HexOrder ==
  <<"0", "1", "2", "3", "4", "5", "6", "7", "8", "9", "a", "b", "c", "d", "e", "f">>

HexDigits == {HexOrder[k] : k \in 1..Len(HexOrder)} \cup {"A", "B", "C", "D", "E", "F"}

\* the digits of a UUID outside the varied window
Filler(k) == HexOrder[((k * 7) % Len(HexOrder)) + 1]

\* 32 hex digits: a window of MaxVaried digits takes every value, at every place
UuidDigits ==
  {[k \in 1..32 |-> IF k \in start..(start + MaxVaried - 1)
                    THEN w[k - start + 1] ELSE Filler(k)] :
     start \in 1..(33 - MaxVaried), w \in [1..MaxVaried -> HexDigits]}

\* the 8-4-4-4-12 text of a UUID
FormatUuid(d) ==
  SubSeq(d, 1, 8) \o <<"-">> \o SubSeq(d, 9, 12) \o <<"-">> \o SubSeq(d, 13, 16)
    \o <<"-">> \o SubSeq(d, 17, 20) \o <<"-">> \o SubSeq(d, 21, 32)

\* uuid.replace(/[^a-z0-9]/gi, '')
StripNonAlphanumeric(str) ==
  SelectSeq(str, LAMBDA c : c \in Digits \cup LowerCase \cup UpperCase)

\* String.prototype.substring(from, to), 0-based, to exclusive, clipped
substring(str, from, to) ==
  IF from >= Len(str) THEN <<>>
  ELSE SubSeq(str, from + 1, IF to < Len(str) THEN to ELSE Len(str))

\* the upper-case form of the letters a UUID can hold
UpperOf ==
  [c \in {"a", "b", "c", "d", "e", "f"} |->
     CASE c = "a" -> "A" [] c = "b" -> "B" [] c = "c" -> "C"
       [] c = "d" -> "D" [] c = "e" -> "E" [] c = "f" -> "F"]

\* String.prototype.toUpperCase
toUpperCase(str) ==
  [k \in 1..Len(str) |-> IF str[k] \in DOMAIN UpperOf THEN UpperOf[str[k]] ELSE str[k]]

generateOrderId(uuid) ==
  toUpperCase(substring(StripNonAlphanumeric(uuid), 0, 6))

\* a generator that cuts the UUID before it strips the dashes
generateTransactionId_CutsFirst(uuid) ==
  <<"T", "R", "X", "-">> \o toUpperCase(StripNonAlphanumeric(substring(uuid, 0, 10)))

generateTransactionId(uuid) ==
  <<"T", "R", "X", "-">> \o toUpperCase(substring(StripNonAlphanumeric(uuid), 0, 10))

InitIds ==
  /\ users = InitUsers
  /\ products = InitProducts
  /\ orders = <<>>
  /\ payments = <<>>
  /\ last = NoRequest
  /\ calc = NoCalc
  /\ tokens = {}
  /\ pending = NoPending
  /\ sessions = NoSessions
  /\ gen \in {[NoGen EXCEPT !.uuid = FormatUuid(d)] : d \in UuidDigits}

GenerateOrderId ==
  /\ ~gen.done
  /\ gen' = [gen EXCEPT !.order_id = generateOrderId(gen.uuid), !.done = TRUE]
  /\ UNCHANGED <<users, products, orders, payments, last, authVars, sessions, calc>>

GenerateTransactionId ==
  /\ ~gen.done
  /\ gen' = [gen EXCEPT !.transaction_id = generateTransactionId(gen.uuid),
                        !.done = TRUE]
  /\ UNCHANGED <<users, products, orders, payments, last, authVars, sessions, calc>>

NextIds ==
  \/ GenerateOrderId
  \/ GenerateTransactionId

SpecIds == InitIds /\ [][NextIds]_vars

(***************************************************************************)
(* Orders next to each other: the customer places one-line orders, one     *)
(* more than the order workflow above holds, while statuses are patched    *)
(* and payments arrive.                                                    *)
(***************************************************************************)
OneLineLists ==
  {<<[product_id |-> "p1", quantity |-> 1]>>, <<[product_id |-> "p2", quantity |-> 1]>>}

CreateNextOrderCall ==
  \E items \in OneLineLists, method \in PaymentMethods :
    CreateOrderWithin(MaxOrders + 1, "a@x", items, TRUE, method, Len(orders) + 1, "none")

NextOrders ==
  \/ CreateNextOrderCall
  \/ UpdateOrderStatusCall
  \/ PaymentCall

SpecOrders == Init /\ [][NextOrders]_vars

(***************************************************************************)
(* CreateOrder on any parsed list: JSON.parse(products) yields whatever    *)
(* integers the request carries, zero and negative quantities included.    *)
(***************************************************************************)
AnyQuantities == (0 - 1)..1

AnyOrderItemLists ==
  UNION {[1..n -> [product_id : ProductIds, quantity : AnyQuantities]] :
           n \in 1..MaxItems}

CreateAnyOrderCall ==
  \E email \in Emails, items \in AnyOrderItemLists, file \in BOOLEAN :
    \E check \in {CreateOrderCheck(products, email, items, file)} :
      \E method \in CreateMethods(check), fail \in CreateFailPoints(check) :
        CreateOrder(email, items, file, method, Len(orders) + 1, fail)

SpecAnyOrder == Init /\ [][CreateAnyOrderCall]_vars

(***************************************************************************)
(* Concurrent CreateOrder transactions on a store with snapshot isolation  *)
(* that aborts a transaction on a write-write conflict.  A request reads   *)
(* and checks (BeginOrder), issues its writes (WriteOrder) and commits     *)
(* (CommitOrder); other requests run between these steps.                  *)
(***************************************************************************)
\* reads made outside the session: the transaction's snapshot is then the
\* store as it is when the first write is issued
TxnSnapshot_ReadsOutside(read, current) == current

\* the snapshot of a transaction whose reads carry .session(session): the
\* store as the reads saw it
TxnSnapshot(read, current) == read

\* the products a transaction in progress has written and not yet committed
WrittenBy(p) ==
  IF sessions[p].pc = "written"
  THEN {q \in ProductIds : HasItem(sessions[p].order.products, q)}
  ELSE {}

\* a write-write conflict: a product this transaction writes was changed by a
\* transaction that committed after the snapshot, or is written by another
\* transaction still in progress
WriteConflict(p) ==
  \E q \in ProductIds :
    /\ HasItem(sessions[p].order.products, q)
    /\ \/ TxnSnapshot(sessions[p].read, Store).products[q] # products[q]
       \/ \E other \in Procs \ {p} : q \in WrittenBy(other)

\* startTransaction, the reads in the session and the checks on what they saw
BeginOrder(p, email, items, file, method) ==
  /\ sessions[p].pc = "idle"
  /\ \E check \in {CreateOrderCheck(products, email, items, file)} :
       IF check # "none"
       THEN /\ last' = [NoRequest EXCEPT
                          !.op = "CreateOrder", !.err = check,
                          !.userResolves = UserResolves(email),
                          !.allResolve = AllResolve(items),
                          !.exceedsStock = ExceedsStock(items),
                          !.needsPrescription = NeedsPrescription(items),
                          !.repeatsId = RepeatsId(items),
                          !.file = file]
            /\ UNCHANGED sessions
       ELSE /\ sessions' =
                 [sessions EXCEPT
                    ![p] = [pc |-> "read", read |-> Store,
                            order |-> NewOrder(Store, email, items, file, method, 0)]]
            /\ UNCHANGED last
  /\ UNCHANGED <<users, products, orders, payments, authVars, pureVars>>

\* Order.create, the Product.updateOne calls and Payment.create, all in the
\* session: staged, or refused by the store with a write conflict, on which
\* the catch block aborts and rethrows
WriteOrder(p) ==
  /\ sessions[p].pc = "read"
  /\ IF WriteConflict(p)
     THEN /\ sessions' = [sessions EXCEPT ![p] = NoSessions[p]]
          /\ last' = [NoRequest EXCEPT !.op = "CreateOrder",
                                       !.err = "WriteConflict",
                                       !.fail = "stock_write"]
     ELSE /\ sessions' = [sessions EXCEPT ![p].pc = "written"]
          /\ UNCHANGED last
  /\ UNCHANGED <<users, products, orders, payments, authVars, pureVars>>

\* session.commitTransaction(): the staged documents join the committed store;
\* the stock written is the one computed from the transaction's reads
CommitOrder(p) ==
  /\ sessions[p].pc = "written"
  /\ \E order \in {[sessions[p].order EXCEPT !._id = Len(orders) + 1,
                                             !.order_id = Len(orders) + 1,
                                             !.transaction_id = Len(orders) + 1]} :
     \E written \in {CreateOrderWrites([products |-> sessions[p].read.products,
                                       orders |-> orders,
                                       payments |-> payments], order, "none")} :
       /\ orders' = written.orders
       /\ payments' = written.payments
       /\ products' = [q \in ProductIds |->
                         IF HasItem(order.products, q) THEN written.products[q]
                         ELSE products[q]]
  /\ sessions' = [sessions EXCEPT ![p] = NoSessions[p]]
  /\ last' = [NoRequest EXCEPT !.op = "CreateOrder"]
  /\ UNCHANGED <<users, authVars, pureVars>>

BeginOrderCall ==
  \E p \in Procs, email \in Emails, items \in OrderItemLists, file \in BOOLEAN :
    BeginOrder(p, email, items, file, "cash_on_delivery")

WriteOrderStep == \E p \in Procs : WriteOrder(p)

CommitOrderStep == \E p \in Procs : CommitOrder(p)

NextConcurrent ==
  \/ BeginOrderCall
  \/ WriteOrderStep
  \/ CommitOrderStep

SpecConcurrent == Init /\ [][NextConcurrent]_vars

(***************************************************************************)
(* UpdateOrderStatus over every stored order.  Order.findById returns the  *)
(* document whatever wrote it, so the handler is applied to each order the *)
(* Order schema admits: any status, payment method, payment status and     *)
(* prescription reference, with its Payment record and the stock as        *)
(* CreateOrder leaves them.                                                *)
(***************************************************************************)
PaymentStatusValues == {"PENDING", "PAID", "CANCELLED"}

\* the item lists CreateOrder accepts on the initial products
StoredItemLists ==
  {items \in OrderItemLists :
     /\ \A k \in 1..Len(items) :
          /\ ~InitProducts[items[k].product_id].is_deleted
          /\ items[k].quantity <= InitProducts[items[k].product_id].stock
     /\ \A k, l \in 1..Len(items) :
          items[k].product_id = items[l].product_id => k = l}

\* the store holding one order of customer a@x with the given fields
StoredOrder(items, prescription, method, status, pay, recorded) ==
  LET store0 == [products |-> InitProducts, orders |-> <<>>, payments |-> <<>>]
      order == [NewOrder(store0, "a@x", items, TRUE, method, 1)
                  EXCEPT !.prescription = prescription,
                         !.order_status = status,
                         !.payment_status = pay]
      after == CreateOrderWrites(store0, order, "none")
  IN [after EXCEPT !.payments[1].payment_status = recorded]

InitStatus ==
  /\ users = InitUsers
  /\ \E items \in StoredItemLists, prescription \in {"", "secure_url"},
        method \in PaymentMethods, status \in OrderStatusValues,
        pay \in PaymentStatusValues, recorded \in PaymentStatusValues :
       \E store \in {StoredOrder(items, prescription, method, status, pay, recorded)} :
         /\ products = store.products
         /\ orders = store.orders
         /\ payments = store.payments
  /\ last = NoRequest
  /\ calc = NoCalc
  /\ InitRest

SpecStatus == InitStatus /\ [][UpdateOrderStatusCall]_vars

(***************************************************************************)
(* Properties.                                                             *)
(***************************************************************************)
StoreUnchanged == UNCHANGED <<products, orders, payments>>

\* the quantity of product p on an order (0 when p is not on it)
QuantityOn(order, p) ==
  SumSeq(Map(order.products,
             LAMBDA line : IF line.product_id = p THEN line.quantity ELSE 0))

PaymentsOf(order) ==
  {j \in 1..Len(payments) : payments[j].order_id = order._id}

OnePaymentPerOrder ==
  \A i \in 1..Len(orders) :
    /\ Cardinality(PaymentsOf(orders[i])) = 1
    /\ \A j \in PaymentsOf(orders[i]) :
         /\ payments[j].amount = orders[i].grand_total
         /\ payments[j].transaction_id = orders[i].transaction_id

CreateCommitted == last'.op = "CreateOrder" /\ last'.err = "none"

CreateFailed == last'.op = "CreateOrder" /\ last'.err # "none"

\* C1: CreateOrder is all-or-nothing. After every step each order has exactly
\* one payment, with the order's grand total and transaction id; a committed
\* CreateOrder appends one order and takes exactly its quantities off the
\* stock of each product; a failed one leaves orders, payments and products
\* as they were and reports the error that made it fail.
C1_AllOrNothing ==
  [][/\ OnePaymentPerOrder'
     /\ CreateCommitted =>
          /\ Len(orders') = Len(orders) + 1
          /\ SubSeq(orders', 1, Len(orders)) = orders
          /\ \A p \in ProductIds :
               products'[p].stock =
                 products[p].stock - QuantityOn(orders'[Len(orders')], p)
     /\ CreateFailed =>
          /\ StoreUnchanged
          /\ last'.fail # "none" => last'.err = last'.fail]_vars

\* C1 witness: with an order committed, a later CreateOrder failed at the
\* Payment insert and the store still holds one order and one payment.
C1_Witness ==
  /\ last.op = "CreateOrder"
  /\ last.fail = "payment_write"
  /\ last.err = "payment_write"
  /\ Len(orders) = 1
  /\ Len(payments) = 1

\* C2: a CreateOrder whose user and products resolve and one of whose lines
\* asks for more than the stock fails with BadRequest and writes nothing.
C2_OverStockRejected ==
  [][(/\ last'.op = "CreateOrder"
      /\ last'.userResolves
      /\ last'.allResolve
      /\ last'.exceedsStock)
     => (last'.err = "BadRequest" /\ StoreUnchanged)]_vars

\* C2 witness: such a request was refused after an earlier order had taken
\* stock.
C2_Witness ==
  /\ last.op = "CreateOrder"
  /\ last.userResolves /\ last.allResolve /\ last.exceedsStock
  /\ ~last.repeatsId
  /\ ~last.needsPrescription
  /\ last.err = "BadRequest"
  /\ Len(orders) = 1

StatusRequest(i, targets) ==
  /\ last'.op = "UpdateOrderStatus"
  /\ last'.id = i
  /\ last'.status \in targets

\* C3 as stated: no order moves from PLACED or CONFIRMED to SHIPPED, and every
\* such request is refused with BadRequest.
C3_SpecReading ==
  [][\A i \in 1..Len(orders) :
       orders[i].order_status \in {"PLACED", "CONFIRMED"} =>
         /\ orders'[i].order_status # "SHIPPED"
         /\ StatusRequest(i, {"SHIPPED"}) =>
              (last'.err = "BadRequest" /\ orders'[i] = orders[i])]_vars

\* C3 amended: no order moves from SHIPPED back to PLACED or CONFIRMED, and
\* every such request is refused with BadRequest and leaves the order as it is.
C3_NoReturnFromShipped ==
  [][\A i \in 1..Len(orders) :
       orders[i].order_status = "SHIPPED" =>
         /\ orders'[i].order_status \notin {"PLACED", "CONFIRMED"}
         /\ StatusRequest(i, {"PLACED", "CONFIRMED"}) =>
              (last'.err = "BadRequest" /\ orders'[i] = orders[i])]_vars

\* C3 witness: a request to put a SHIPPED order back to PLACED or CONFIRMED
\* was refused.
C3_Witness ==
  /\ last.op = "UpdateOrderStatus"
  /\ last.status \in {"PLACED", "CONFIRMED"}
  /\ last.err = "BadRequest"
  /\ last.id \in 1..Len(orders)
  /\ orders[last.id].order_status = "SHIPPED"

LifecycleEdges ==
  {<<"PLACED", "CONFIRMED">>, <<"CONFIRMED", "SHIPPED">>, <<"SHIPPED", "DELIVERED">>,
   <<"PLACED", "CANCELLED">>, <<"CONFIRMED", "CANCELLED">>, <<"SHIPPED", "CANCELLED">>}

\* C4: every change of an order's status is an edge of the lifecycle
\* PLACED -> CONFIRMED -> SHIPPED -> DELIVERED, or a cancellation from PLACED,
\* CONFIRMED or SHIPPED.
C4_OnlyLifecycleEdges ==
  [][\A i \in 1..Len(orders) :
       orders'[i].order_status # orders[i].order_status =>
         <<orders[i].order_status, orders'[i].order_status>> \in LifecycleEdges]_vars

\* C5: a DELIVERED order keeps its status, and a request to cancel an order
\* that is PLACED, CONFIRMED or SHIPPED, whose writes do not fail, cancels it.
C5_CancelNotFromDelivered ==
  [][\A i \in 1..Len(orders) :
       /\ orders[i].order_status = "DELIVERED" =>
            orders'[i].order_status = "DELIVERED"
       /\ (/\ orders[i].order_status \in {"PLACED", "CONFIRMED", "SHIPPED"}
           /\ StatusRequest(i, {"CANCELLED"})
           /\ last'.fail = "none")
          => (last'.err = "none" /\ orders'[i].order_status = "CANCELLED")]_vars

\* C5 witness: a request to cancel a DELIVERED order was refused.
C5_Witness ==
  /\ last.op = "UpdateOrderStatus"
  /\ last.status = "CANCELLED"
  /\ last.err = "BadRequest"
  /\ last.id \in 1..Len(orders)
  /\ orders[last.id].order_status = "DELIVERED"

\* C6: cancelling a PAID order adds each line's quantity to its product's
\* stock and nothing to any other product, and marks the order's and the
\* Payment's payment_status CANCELLED; a later CANCELLED request on that order
\* leaves every product as it is.
C6_CancelPaidRestocks ==
  [][\A i \in 1..Len(orders) :
       /\ (/\ StatusRequest(i, {"CANCELLED"})
           /\ last'.err = "none"
           /\ orders[i].payment_status = "PAID")
          => /\ \A p \in ProductIds :
                  products'[p].stock = products[p].stock + QuantityOn(orders[i], p)
             /\ orders'[i].payment_status = "CANCELLED"
             /\ \A j \in PaymentsOf(orders[i]) :
                  payments'[j].payment_status = "CANCELLED"
       /\ (/\ StatusRequest(i, {"CANCELLED"})
           /\ orders[i].payment_status = "CANCELLED")
          => products' = products]_vars

\* C6 witness: a paid two-line order has been cancelled, and the CANCELLED
\* request was then repeated.
C6_Witness ==
  /\ last.op = "UpdateOrderStatus"
  /\ last.status = "CANCELLED"
  /\ last.err = "none"
  /\ last.id \in 1..Len(orders)
  /\ Len(orders[last.id].products) = 2
  /\ orders[last.id].payment_status = "CANCELLED"
  /\ \A p \in ProductIds : products[p].stock = InitProducts[p].stock

\* C7: in_stock == (stock > 0) on every product.
C7_InStockFlag ==
  \A p \in ProductIds : products[p].in_stock = (products[p].stock > 0)

\* the discounted unit price as the specification states it, in hundredths
StatedDiscountedPrice(price, discount, type) ==
  IF type = "PERCENTAGE" THEN Max(0, price * Scale - price * discount)
  ELSE Max(0, (price - discount) * Scale)

StatedSubtotal(order) ==
  SumSeq(Map(order.products,
             LAMBDA line :
               StatedDiscountedPrice(line.price, line.discount, line.discount_type)
                 * line.quantity))

TotalsRight(order) ==
  /\ order.subtotal = StatedSubtotal(order)
  /\ order.delivery_charge =
       (IF order.subtotal > DeliveryThreshold * Scale THEN 0 ELSE DeliveryCharge * Scale)
  /\ order.grand_total = order.subtotal + order.delivery_charge

\* C8: every order's subtotal is the sum of discounted price times quantity,
\* its delivery charge is 0 above 1000 and 50 otherwise, its grand total is
\* their sum, and none of the three changes once the order exists.
C8_Totals ==
  [][/\ \A i \in 1..Len(orders') : TotalsRight(orders'[i])
     /\ \A i \in 1..Len(orders) :
          /\ orders'[i].subtotal = orders[i].subtotal
          /\ orders'[i].delivery_charge = orders[i].delivery_charge
          /\ orders'[i].grand_total = orders[i].grand_total]_vars

\* C8 witness: an order whose subtotal is exactly 1000 pays the delivery
\* charge, and its status has since been changed.
C8_Witness ==
  \E i \in 1..Len(orders) :
    /\ orders[i].subtotal = DeliveryThreshold * Scale
    /\ orders[i].delivery_charge = DeliveryCharge * Scale
    /\ orders[i].order_status = "CONFIRMED"

\* C9: calculateDiscountedPrice is max(0, price - price*discount/100) for
\* PERCENTAGE and max(0, price - discount) for FLAT, and never negative.
C9_DiscountedPrice ==
  calc.done =>
    /\ calc.result >= 0
    /\ calc.type \in DiscountTypes =>
         calc.result = StatedDiscountedPrice(calc.price, calc.discount, calc.type)

\* C9 witness: a flat discount above the price is clamped to 0.
C9_Witness ==
  /\ calc.done
  /\ calc.type = "FLAT"
  /\ calc.price = 100
  /\ calc.discount = 150
  /\ calc.result = 0

HasPrescriptionLine(order) ==
  \E k \in 1..Len(order.products) : order.products[k].requires_prescription

\* C10: a CreateOrder naming a prescription-only product fails with
\* BadRequest and writes nothing when no file is attached; with a file, and
\* every other check and write passing, it commits an order that carries a
\* prescription reference. Every order with a prescription-only line has one.
C10_PrescriptionGate ==
  [][/\ (/\ last'.op = "CreateOrder"
         /\ last'.userResolves
         /\ last'.needsPrescription
         /\ ~last'.file)
        => (last'.err = "BadRequest" /\ StoreUnchanged)
     /\ (/\ last'.op = "CreateOrder"
         /\ last'.userResolves /\ last'.allResolve /\ ~last'.repeatsId
         /\ last'.needsPrescription
         /\ last'.file
         /\ ~last'.exceedsStock
         /\ last'.fail = "none")
        => /\ last'.err = "none"
           /\ Len(orders') = Len(orders) + 1
           /\ orders'[Len(orders')].prescription # ""
     /\ \A i \in 1..Len(orders') :
          HasPrescriptionLine(orders'[i]) => orders'[i].prescription # ""]_vars

\* C10 witness: an order with a prescription-only line was committed with a
\* file attached.
C10_Witness ==
  /\ last.op = "CreateOrder"
  /\ last.err = "none"
  /\ last.needsPrescription
  /\ last.file
  /\ Len(orders) = 1
  /\ HasPrescriptionLine(orders[1])
  /\ orders[1].prescription # ""

\* C11 as stated: a CreateOrder of a known customer fails with NotFound when
\* some requested product id does not resolve to a non-deleted product, and a
\* request whose ids all resolve never fails with NotFound.
C11_ProductNotFound ==
  last.op = "CreateOrder" =>
    /\ (last.userResolves /\ ~last.allResolve) => last.err = "NotFound"
    /\ last.err = "NotFound" => ~last.allResolve

\* the requested order of the last UpdateOrderStatus call exists
StatusCallOn(status) ==
  /\ last.op = "UpdateOrderStatus"
  /\ last.status = status
  /\ last.id \in 1..Len(orders)

\* the increments a paid order's cancellation makes: the Payment record is
\* CANCELLED and every line's quantity is back on its product's stock
CancelWritesDone(order) ==
  /\ \A j \in 1..Len(payments) :
       payments'[j] = IF j = CHOOSE k \in PaymentsOf(order) :
                                \A l \in PaymentsOf(order) : k <= l
                      THEN [payments[j] EXCEPT !.payment_status = "CANCELLED"]
                      ELSE payments[j]
  /\ \A p \in ProductIds :
       products'[p] = [products[p] EXCEPT !.stock = @ + QuantityOn(order, p)]

\* C12: UpdateOrderStatus is atomic and fails cleanly. A failed call (missing
\* order: NotFound; status outside the five, forbidden transition or unmet
\* guard: BadRequest; a failing write: that write's error) leaves orders,
\* payments and products as they were; a successful call sets the requested
\* status and the payment status and, when it cancels a paid order, cancels
\* the Payment record and puts every line's quantity back, all together.
C12_UpdateAtomic ==
  [][last'.op = "UpdateOrderStatus" =>
       /\ last'.err # "none" => StoreUnchanged
       /\ last'.id \notin 1..Len(orders) => last'.err = "NotFound"
       /\ last'.id \in 1..Len(orders) =>
            LET order == orders[last'.id]
                status == last'.status
                paid == status = "CANCELLED" /\ order.payment_status = "PAID"
            IN /\ (\/ status \notin OrderStatusValues
                   \/ status \in invalidTransitions(order.order_status)
                   \/ status = "CONFIRMED" /\ ConfirmBlocked(order)
                   \/ status = "SHIPPED" /\ ShipBlocked(order))
                  => last'.err = "BadRequest"
               /\ last'.fail # "none" => last'.err = last'.fail
               /\ last'.err = "none" =>
                    /\ Len(orders') = Len(orders)
                    /\ orders'[last'.id].order_status = status
                    /\ \A i \in 1..Len(orders) :
                         i # last'.id => orders'[i] = orders[i]
                    /\ paid => (/\ orders'[last'.id].payment_status = "CANCELLED"
                                /\ CancelWritesDone(order))
                    /\ ~paid => UNCHANGED <<products, payments>>]_vars

\* C12 witness: the cancellation of a paid order failed at a stock write and
\* the order is still paid and not cancelled, its Payment record not cancelled.
C12_Witness ==
  /\ last.op = "UpdateOrderStatus"
  /\ last.status = "CANCELLED"
  /\ last.err = "stock_write"
  /\ orders[last.id].payment_status = "PAID"
  /\ orders[last.id].order_status = "PLACED"
  /\ payments[1].payment_status = "PAID"
  /\ products = StoredOrder(<<[product_id |-> "p1", quantity |-> 1]>>, "",
                            "online", "PLACED", "PAID", "PAID").products

\* the order is cash on delivery or paid
MayShip(order) ==
  order.payment_method = "cash_on_delivery" \/ order.payment_status = "PAID"

\* C13: an order moves to SHIPPED only if it is cash on delivery or paid: after
\* a successful ship request the order is SHIPPED and is cash on delivery or
\* paid, and a ship request for an order that is neither ends in BadRequest.
C13_ShipGuard ==
  StatusCallOn("SHIPPED") =>
    /\ last.err = "none" =>
         (orders[last.id].order_status = "SHIPPED" /\ MayShip(orders[last.id]))
    /\ ~MayShip(orders[last.id]) => last.err = "BadRequest"

\* C13 witness: a ship request for an unpaid online order in PLACED was
\* refused with BadRequest.
C13_Witness ==
  /\ StatusCallOn("SHIPPED")
  /\ last.err = "BadRequest"
  /\ orders[last.id].order_status = "PLACED"
  /\ orders[last.id].payment_method = "online"
  /\ orders[last.id].payment_status = "PENDING"

\* C14: a request to confirm an order (from a status the table lets leave for
\* CONFIRMED) ends in BadRequest exactly when some line item requires a
\* prescription and the order has no prescription reference: such an order is
\* always refused, and any other order is refused only by the transition table
\* and is CONFIRMED when the call succeeds.
C14_ConfirmGuard ==
  StatusCallOn("CONFIRMED") =>
    LET order == orders[last.id]
        blocked == HasPrescriptionLine(order) /\ order.prescription = ""
    IN /\ blocked => last.err = "BadRequest"
       /\ (~blocked /\ last.err = "BadRequest") =>
            order.order_status \in {"SHIPPED", "DELIVERED"}
       /\ (~blocked /\ last.err = "none") => order.order_status = "CONFIRMED"

\* C14 witness: a PLACED order whose second line requires a prescription and
\* which has no prescription reference was refused confirmation.
C14_Witness ==
  /\ StatusCallOn("CONFIRMED")
  /\ last.err = "BadRequest"
  /\ orders[last.id].order_status = "PLACED"
  /\ orders[last.id].prescription = ""
  /\ Len(orders[last.id].products) = 2
  /\ ~orders[last.id].products[1].requires_prescription
  /\ orders[last.id].products[2].requires_prescription

\* C15: a successful move to DELIVERED sets the order's payment_status to PAID
\* together with the status when the order is cash on delivery, and leaves
\* the payment_status as it was for any other payment method.
C15_DeliveredMarksPaid ==
  [][(/\ last'.op = "UpdateOrderStatus"
      /\ last'.status = "DELIVERED"
      /\ last'.err = "none")
     => /\ orders'[last'.id].order_status = "DELIVERED"
        /\ orders'[last'.id].payment_status =
             IF orders[last'.id].payment_method = "cash_on_delivery" THEN "PAID"
             ELSE orders[last'.id].payment_status]_vars

\* C15 witness: a cash-on-delivery order was delivered and is PAID while its
\* Payment record still shows the PENDING payment it had before.
C15_Witness ==
  /\ StatusCallOn("DELIVERED")
  /\ last.err = "none"
  /\ orders[last.id].payment_method = "cash_on_delivery"
  /\ orders[last.id].order_status = "DELIVERED"
  /\ orders[last.id].payment_status = "PAID"
  /\ payments[1].payment_status = "PENDING"

\* C16: the transition relation is total. Every status request on an existing
\* order whose writes do not fail ends either with the order in the requested
\* status, which is then one of the five, or in BadRequest.
C16_TotalTransitions ==
  (/\ last.op = "UpdateOrderStatus"
   /\ last.id \in 1..Len(orders)
   /\ last.fail = "none")
  => \/ /\ last.err = "none"
        /\ last.status \in OrderStatusValues
        /\ orders[last.id].order_status = last.status
     \/ last.err = "BadRequest"

\* C16 witness: a request for a status outside the five was refused on an
\* order that had been moved from CANCELLED back to PLACED.
C16_Witness ==
  /\ last.op = "UpdateOrderStatus"
  /\ last.id \in 1..Len(orders)
  /\ last.status \notin OrderStatusValues
  /\ last.err = "BadRequest"
  /\ orders[last.id].order_status = "PLACED"
  /\ orders[last.id].payment_status = "CANCELLED"

\* the stored orders of the customer with this id, newest first
OrdersOwnedBy(id) ==
  Map(Reverse(SelectSeq(orders, LAMBDA o : o.customer_id = id)),
      LAMBDA o : o._id)

\* C17 as stated: orders are visible to exactly their owner. GetMyOrders with
\* the token payload of a customer returns that customer's orders, newest
\* first, and no other order; GetMyOrderById returns the order with that code
\* when the customer owns it and fails with NotFound otherwise.
C17_OwnerOnly ==
  /\ last.op = "GetMyOrders" => last.result = OrdersOwnedBy(last.user)
  /\ last.op = "GetMyOrderById" =>
       LET mine == {i \in 1..Len(orders) :
                      /\ orders[i].order_id = last.id
                      /\ orders[i].customer_id = last.user}
       IN IF mine = {} THEN last.err = "NotFound"
          ELSE last.err = "none" /\ last.result[1] \in mine

\* the user the last authentication call resolved is blocked
LastUserBlocked == \E u \in users : u._id = last.user /\ u.is_blocked

\* C18: a blocked user never obtains a token. Login issues its two tokens only
\* for an existing, non-blocked user whose password matches, and fails with
\* Forbidden for a blocked user whatever the password; RefreshToken with a
\* token of a blocked user fails and issues nothing; a failed call issues no
\* token.
C18_BlockedGetsNoToken ==
  /\ last.op = "Login" =>
       /\ last.issued # {} =>
            \E u \in users : /\ u._id = last.user
                              /\ u.email = last.email
                              /\ ~u.is_blocked
                              /\ u.password = Hash(last.password)
       /\ LastUserBlocked => last.err = "Forbidden"
  /\ last.op = "RefreshToken" =>
       /\ LastUserBlocked => last.err # "none"
       /\ last.issued # {} =>
            \E u \in users : u._id = last.user /\ ~u.is_blocked
  /\ last.op \in {"Login", "RefreshToken"} =>
       (last.err # "none" => last.issued = {})

\* C18 witness: a user who logged in and was then blocked tried to log in
\* with the correct password and got Forbidden.
C18_Witness ==
  /\ last.op = "Login"
  /\ last.err = "Forbidden"
  /\ last.issued = {}
  /\ \E u \in users : /\ u._id = last.user
                        /\ u.is_blocked
                        /\ u.password = Hash(last.password)
                        /\ jwtPayload(u) \in tokens

\* C19 as stated: no two users share an email, whatever Register calls have
\* run and however two concurrent Register calls interleave.
C19_UniqueEmail ==
  \A u, v \in users : u.email = v.email => u._id = v._id

UpperAlphanumeric(str) == \A k \in 1..Len(str) : str[k] \in Digits \cup UpperCase

\* C20: for every UUID, generateOrderId returns exactly 6 characters and
\* generateTransactionId returns TRX- followed by exactly 10 characters, the
\* characters being digits and upper-case letters only.
C20_GeneratedIds ==
  gen.done =>
    /\ gen.order_id # <<>> =>
         (Len(gen.order_id) = 6 /\ UpperAlphanumeric(gen.order_id))
    /\ gen.transaction_id # <<>> =>
         /\ Len(gen.transaction_id) = 14
         /\ SubSeq(gen.transaction_id, 1, 4) = <<"T", "R", "X", "-">>
         /\ UpperAlphanumeric(SubSeq(gen.transaction_id, 5, 14))
    /\ gen.order_id # <<>> \/ gen.transaction_id # <<>>

\* C20 witness: a transaction id was generated from a UUID with lower-case
\* letters on both sides of its first dash.
C20_Witness ==
  /\ gen.done
  /\ gen.uuid[8] = "e" /\ gen.uuid[9] = "-" /\ gen.uuid[10] = "f"
  /\ Len(gen.transaction_id) = 14
  /\ gen.transaction_id[12] = "E" /\ gen.transaction_id[13] = "F"

\* C23 as stated: in every state the payment status on an order and the
\* payment status on its Payment record are the same.
C23_PaymentStatusAgrees ==
  \A i \in 1..Len(orders) :
    \A j \in PaymentsOf(orders[i]) :
      payments[j].payment_status = orders[i].payment_status

\* C24 as stated: every DELIVERED order is PAID.
C24_DeliveredIsPaid ==
  \A i \in 1..Len(orders) :
    orders[i].order_status = "DELIVERED" => orders[i].payment_status = "PAID"

\* the units of product p held by the orders that are not cancelled
Reserved(p) ==
  SumSeq([i \in 1..Len(orders) |->
            IF orders[i].order_status # "CANCELLED"
            THEN QuantityOn(orders[i], p) ELSE 0])

\* C25 as stated: for each product, the stock plus the quantities of the
\* product on the orders that are not CANCELLED is the initial stock.
C25_StockConserved ==
  \A p \in ProductIds : products[p].stock + Reserved(p) = InitProducts[p].stock

\* the part of an order that CreateOrder fixes
Snapshot(order) ==
  [products |-> order.products, subtotal |-> order.subtotal,
   delivery_charge |-> order.delivery_charge, grand_total |-> order.grand_total,
   transaction_id |-> order.transaction_id, customer_id |-> order.customer_id]

\* C22: an order's snapshot is immutable and only status transitions touch an
\* order. No step removes an order or changes the line items, subtotal,
\* delivery charge, grand total, transaction id or customer of an existing
\* order, whatever happens to the products; an UpdateOrderStatus call changes
\* at most order_status and payment_status of the order it names and leaves
\* every other order as it is.
C22_SnapshotImmutable ==
  [][/\ Len(orders') >= Len(orders)
     /\ \A i \in 1..Len(orders) : Snapshot(orders'[i]) = Snapshot(orders[i])
     /\ last'.op = "UpdateOrderStatus" =>
          /\ Len(orders') = Len(orders)
          /\ \A i \in 1..Len(orders) :
               /\ i # last'.id => orders'[i] = orders[i]
               /\ orders'[i] = [orders[i] EXCEPT
                                  !.order_status = orders'[i].order_status,
                                  !.payment_status = orders'[i].payment_status]]_vars

\* C22 witness: two orders hold a unit of p1 each; the second was paid and
\* then cancelled, which put its unit back on the stock, and the first still
\* has its line and its totals.
C22_Witness ==
  /\ Len(orders) = 2
  /\ last.op = "UpdateOrderStatus" /\ last.id = 2 /\ last.err = "none"
  /\ orders[2].order_status = "CANCELLED"
  /\ orders[2].payment_status = "CANCELLED"
  /\ products["p1"].stock = InitProducts["p1"].stock - 1
  /\ \A i \in 1..2 :
       /\ Len(orders[i].products) = 1
       /\ orders[i].products[1].product_id = "p1"
       /\ orders[i].products[1].quantity = 1
       /\ orders[i].grand_total = orders[i].subtotal + orders[i].delivery_charge

\* C26 as stated: whatever integer quantities CreateOrder receives, no
\* committed order has a negative subtotal, no product's stock is negative or
\* above its initial value, and the stock of every product on a committed
\* order is strictly below its initial value.
C26_NoStockGain ==
  /\ \A i \in 1..Len(orders) : orders[i].subtotal >= 0
  /\ \A p \in ProductIds :
       /\ products[p].stock >= 0
       /\ products[p].stock <= InitProducts[p].stock
       /\ (\E i \in 1..Len(orders) : HasItem(orders[i].products, p))
            => products[p].stock < InitProducts[p].stock

\* the units of product p on all orders
Ordered(p) == SumSeq([i \in 1..Len(orders) |-> QuantityOn(orders[i], p)])

\* C21: no oversell under concurrency. However concurrent CreateOrder
\* transactions interleave on a store with snapshot isolation and abort on
\* write-write conflict, the committed stock of every product is never negative
\* and is the initial stock minus the quantities of the committed orders.
C21_NoOversell ==
  \A p \in ProductIds :
    /\ products[p].stock >= 0
    /\ products[p].stock = InitProducts[p].stock - Ordered(p)

\* C21 witness: two transactions read the same stock of p1; one committed its
\* order and the other was aborted by the store with a write conflict.
C21_Witness ==
  /\ last.op = "CreateOrder"
  /\ last.err = "WriteConflict"
  /\ Len(orders) = 1
  /\ HasItem(orders[1].products, "p1")
  /\ products["p1"].stock = InitProducts["p1"].stock - Ordered("p1")
  /\ products["p1"].stock < InitProducts["p1"].stock

====
